---- MODULE Spec2Model ----
(***************************************************************************)
(* Dockerfile generation of container-magic:                               *)
(*   generators/dockerfile.py  process_stage_build_steps,                  *)
(*                             generate_dockerfile                          *)
(* A build step (a string in the YAML list) is a sequence of its           *)
(* space-separated words, so "copy a b" is <<"copy", "a", "b">> and the    *)
(* keyword "create_user" is <<"create_user">>.  An emitted Dockerfile      *)
(* instruction is a sequence of words as well.                             *)
(***************************************************************************)
EXTENDS Naturals, Sequences, FiniteSets, TLC

VARIABLES config, pc, stages, stage_order, stages_data, stderr,
          dockerfile_content, output_file, raised,
          frm_arg, current, visited_set, returned, iterations,
          base_image, detected,
          files, previous, host_runtime, run, pending,
          output_dir, existing_scripts, generated_scripts, commands_left

\* The state of resolve_base_image and of the detect_* functions.
resolver_vars == <<frm_arg, current, visited_set, returned, iterations>>
detector_vars == <<base_image, detected>>

\* The project directory and the environment of `cm update`.
update_vars == <<files, previous, host_runtime, run, pending>>

\* The state of generate_standalone_command_scripts.
standalone_vars ==
  <<output_dir, existing_scripts, generated_scripts, commands_left>>

vars == <<config, pc, stages, stage_order, stages_data, stderr,
          dockerfile_content, output_file, raised,
          resolver_vars, detector_vars, update_vars, standalone_vars>>

(***************************************************************************)
(* Bounds of the model.                                                    *)
(***************************************************************************)
MaxSteps == 2
MaxAssets == 1
MaxCachedAssets == 2
MaxCalls == 2
MaxFragments == 2
MaxRuns == 2

(***************************************************************************)
(* Python values.                                                          *)
(***************************************************************************)
\* Optional[list]: None is the empty tuple, a present value v is <<v>>.
None == <<>>
Some(v) == <<v>>

\* An absent Optional[str] (None) is falsy like "": the code only tests it
\* with `or` and `if`.
NoStr == ""

\* The characters of the names used as `from` values.
Spelling ==
  [base |-> <<"b","a","s","e">>,
   development |-> <<"d","e","v","e","l","o","p","m","e","n","t">>,
   production |-> <<"p","r","o","d","u","c","t","i","o","n">>] @@
  ("python:3-slim" :> <<"p","y","t","h","o","n",":","3","-","s","l","i","m">>) @@
  ("alpine:3.19" :> <<"a","l","p","i","n","e",":","3",".","1","9">>) @@
  ("fedora:39" :> <<"f","e","d","o","r","a",":","3","9">>) @@
  ("ghcr.io/org/image" :>
     <<"g","h","c","r",".","i","o","/","o","r","g","/","i","m","a","g","e">>) @@
  ("local/base" :> <<"l","o","c","a","l","/","b","a","s","e">>) @@
  ("nonexistent" :> <<"n","o","n","e","x","i","s","t","e","n","t">>)

\* `ch in s`
Contains(s, ch) == \E i \in DOMAIN Spelling[s] : Spelling[s][i] = ch

\* The test for ":" alone.
IsImageRefColonOnly(frm) == Contains(frm, ":")

\* `":" in frm or "/" in frm`
IsImageRef(frm) == Contains(frm, ":") \/ Contains(frm, "/")

(***************************************************************************)
(* Build steps.                                                            *)
(***************************************************************************)
INSTALL_SYSTEM_PACKAGES == <<"install_system_packages">>
INSTALL_PIP_PACKAGES == <<"install_pip_packages">>
CREATE_USER == <<"create_user">>
SWITCH_USER == <<"switch_user">>
SWITCH_ROOT == <<"switch_root">>
BECOME_USER == <<"become_user">>
BECOME_ROOT == <<"become_root">>
COPY_CACHED_ASSETS == <<"copy_cached_assets">>

\* `x in list`
InList(x, list) == \E i \in DOMAIN list : list[i] = x

\* The default steps of a stage that has none.
DefaultBuildSteps(stage) ==
  IF IsImageRef(stage.frm)
    THEN <<INSTALL_SYSTEM_PACKAGES, INSTALL_PIP_PACKAGES, CREATE_USER>>
    ELSE <<>>

BuildSteps(stage) ==
  IF stage.build_steps = None THEN DefaultBuildSteps(stage)
  ELSE stage.build_steps[1]

Entry(type, command) == [type |-> type, command |-> command]

\* A custom command wrapped a second time, by the compiler.
CustomEntryRunWrapped(step) == Entry("custom", <<"RUN">> \o step)

\* The line break inside a multi-line step.
NEWLINE == "\n"

\* The words of a step before its first line break.
RECURSIVE FirstLine(_)
FirstLine(step) ==
  IF step = <<>> \/ Head(step) = NEWLINE THEN <<>>
  ELSE <<Head(step)>> \o FirstLine(Tail(step))

\* A custom command cut at its first line break.
CustomEntryFirstLine(step) == Entry("custom", FirstLine(step))

\* Custom RUN command: the step itself is the command.
CustomEntry(step) == Entry("custom", step)

\* One iteration of the loop over build_steps: acc holds ordered_steps and
\* the has_* flags.
ProcessStep(acc, step) ==
  CASE step = INSTALL_SYSTEM_PACKAGES ->
         [acc EXCEPT !.ordered_steps = Append(@, Entry("system_packages", <<>>))]
    [] step = INSTALL_PIP_PACKAGES ->
         [acc EXCEPT !.ordered_steps = Append(@, Entry("pip_packages", <<>>))]
    [] step = CREATE_USER ->
         [acc EXCEPT !.ordered_steps = Append(@, Entry("create_user", <<>>)),
                     !.has_create_user = TRUE]
    [] step = SWITCH_USER ->
         [acc EXCEPT !.ordered_steps = Append(@, Entry("switch_user", <<>>)),
                     !.has_switch_user = TRUE]
    [] step = SWITCH_ROOT ->
         [acc EXCEPT !.ordered_steps = Append(@, Entry("switch_root", <<>>))]
    [] step = COPY_CACHED_ASSETS ->
         [acc EXCEPT !.ordered_steps = Append(@, Entry("cached_assets", <<>>)),
                     !.has_copy_cached_assets = TRUE]
    [] OTHER ->
         [acc EXCEPT !.ordered_steps = Append(@, CustomEntry(step))]

\* The loop leaving out the last step.
RECURSIVE ProcessStepsButLast(_, _)
ProcessStepsButLast(acc, build_steps) ==
  IF Len(build_steps) <= 1 THEN acc
  ELSE ProcessStepsButLast(ProcessStep(acc, Head(build_steps)),
                           Tail(build_steps))

\* for step in build_steps
RECURSIVE ProcessSteps(_, _)
ProcessSteps(acc, build_steps) ==
  IF build_steps = <<>> THEN acc
  ELSE ProcessSteps(ProcessStep(acc, Head(build_steps)), Tail(build_steps))

LoopStart ==
  [ordered_steps |-> <<>>, has_create_user |-> FALSE,
   has_switch_user |-> FALSE, has_copy_cached_assets |-> FALSE]

\* The walk up the stage hierarchy that looks for create_user.
RECURSIVE UserCreatedWalk(_, _, _)
UserCreatedWalk(current_stage_name, visited, stages_dict) ==
  IF current_stage_name \notin DOMAIN stages_dict THEN FALSE
  ELSE IF current_stage_name \in visited THEN FALSE
  ELSE LET current_stage == stages_dict[current_stage_name] IN
    IF /\ current_stage.build_steps # None
       /\ current_stage.build_steps[1] # <<>>
       /\ InList(CREATE_USER, current_stage.build_steps[1])
      THEN TRUE
    ELSE IF current_stage.frm \in DOMAIN stages_dict
      THEN UserCreatedWalk(current_stage.frm,
                           visited \cup {current_stage_name}, stages_dict)
    ELSE FALSE

Warning(stage_name, kind) == [stage |-> stage_name, kind |-> kind]

\* Validation: user is defined but create_user not in build_steps.
WarnUserNoEffect(stage, stage_name, loop) ==
  IF stage.user # NoStr /\ ~loop.has_create_user /\ ~loop.has_switch_user
    THEN <<Warning(stage_name, "user_no_effect")>> ELSE <<>>

\* Validation: switch_user used but no create_user in this or parent stages.
WarnNoCreateUser(stage_name, loop, stages_dict) ==
  IF /\ loop.has_switch_user
     /\ ~(loop.has_create_user \/ UserCreatedWalk(stage_name, {}, stages_dict))
    THEN <<Warning(stage_name, "no_create_user")>> ELSE <<>>

\* The warning printed for every stage that declares cached assets.
WarnCachedAssetsDeclared(stage, stage_name, loop) ==
  IF stage.cached_assets # <<>>
    THEN <<Warning(stage_name, "cached_assets_unused")>> ELSE <<>>

\* Warn if cached_assets defined but copy_cached_assets not in build_steps.
WarnCachedAssets(stage, stage_name, loop) ==
  IF stage.cached_assets # <<>> /\ ~loop.has_copy_cached_assets
    THEN <<Warning(stage_name, "cached_assets_unused")>> ELSE <<>>

\* get_asset_cache_path followed by relative_to(project_dir).
AssetCachePath(url) == <<".cm-cache", url>>

CachedAssetsData(stage) ==
  [i \in DOMAIN stage.cached_assets |->
     [source |-> AssetCachePath(stage.cached_assets[i].url),
      dest |-> stage.cached_assets[i].dest,
      url |-> stage.cached_assets[i].url]]

\* process_stage_build_steps: its return value and what it prints.
ProcessStageBuildSteps(stage, stage_name, stages_dict) ==
  LET loop == ProcessSteps(LoopStart, BuildSteps(stage)) IN
    [ordered_steps |-> loop.ordered_steps,
     has_copy_cached_assets |-> loop.has_copy_cached_assets,
     cached_assets_data |-> CachedAssetsData(stage),
     printed |-> WarnUserNoEffect(stage, stage_name, loop)
                 \o WarnNoCreateUser(stage_name, loop, stages_dict)
                 \o WarnCachedAssets(stage, stage_name, loop)]

(***************************************************************************)
(* core/templates.py  detect_package_manager, detect_shell,                *)
(*                    detect_user_creation_style                           *)
(* An image name is the sequence of its characters.                        *)
(***************************************************************************)
\* str.lower() on the letters of the alphabet.
LowerCase ==
  ("A" :> "a") @@ ("B" :> "b") @@ ("C" :> "c") @@ ("D" :> "d") @@
  ("E" :> "e") @@ ("F" :> "f") @@ ("G" :> "g") @@ ("H" :> "h") @@
  ("I" :> "i") @@ ("J" :> "j") @@ ("K" :> "k") @@ ("L" :> "l") @@
  ("M" :> "m") @@ ("N" :> "n") @@ ("O" :> "o") @@ ("P" :> "p") @@
  ("Q" :> "q") @@ ("R" :> "r") @@ ("S" :> "s") @@ ("T" :> "t") @@
  ("U" :> "u") @@ ("V" :> "v") @@ ("W" :> "w") @@ ("X" :> "x") @@
  ("Y" :> "y") @@ ("Z" :> "z")

\* The image name left as it is spelled.
ToLowerAsSpelled(chars) == chars

\* base_image.lower()
ToLower(chars) ==
  [i \in DOMAIN chars |->
     IF chars[i] \in DOMAIN LowerCase THEN LowerCase[chars[i]] ELSE chars[i]]

\* `needle in hay`
IsSubstring(needle, hay) ==
  \E i \in 0 .. Len(hay) :
    /\ i + Len(needle) <= Len(hay)
    /\ SubSeq(hay, i + 1, i + Len(needle)) = needle

ALPINE == <<"a","l","p","i","n","e">>

DNF_DISTROS ==
  << <<"f","e","d","o","r","a">>, <<"c","e","n","t","o","s">>,
     <<"r","h","e","l">>, <<"r","o","c","k","y">>, <<"a","l","m","a">> >>

DetectPackageManager(chars) ==
  LET image_lower == ToLower(chars) IN
    IF IsSubstring(ALPINE, image_lower) THEN "apk"
    ELSE IF \E d \in DOMAIN DNF_DISTROS : IsSubstring(DNF_DISTROS[d], image_lower)
      THEN "dnf"
    ELSE "apt"

DetectShell(chars) ==
  LET image_lower == ToLower(chars) IN
    IF IsSubstring(ALPINE, image_lower) THEN "/bin/sh" ELSE "/bin/bash"

DetectUserCreationStyle(chars) ==
  LET image_lower == ToLower(chars) IN
    IF IsSubstring(ALPINE, image_lower) THEN "alpine" ELSE "standard"

\* The detect_* functions on the names used as `from` values, tabulated.
DetectedPackageManager ==
  [name \in DOMAIN Spelling |-> DetectPackageManager(Spelling[name])]
DetectedShell ==
  [name \in DOMAIN Spelling |-> DetectShell(Spelling[name])]
DetectedUserCreationStyle ==
  [name \in DOMAIN Spelling |-> DetectUserCreationStyle(Spelling[name])]

\* The package manager taken from detection alone.
StagePackageManagerDetected(stage_config) ==
  DetectedPackageManager[stage_config.frm]

\* stage_config.package_manager or detect_package_manager(base_image)
StagePackageManager(stage_config) ==
  IF stage_config.package_manager # NoStr THEN stage_config.package_manager
  ELSE DetectedPackageManager[stage_config.frm]

\* stage_config.shell or detect_shell(base_image): None and "" are falsy.
StageShell(stage_config) ==
  IF stage_config.shell # None /\ stage_config.shell[1] # ""
    THEN stage_config.shell[1]
  ELSE DetectedShell[stage_config.frm]

\* detect_user_creation_style(base_image)
StageUserCreationStyle(stage_config) ==
  DetectedUserCreationStyle[stage_config.frm]

\* StageConfig(frm="base")
DefaultStage ==
  [frm |-> "base", build_steps |-> None, user |-> NoStr, cached_assets |-> <<>>,
   package_manager |-> NoStr, shell |-> None]

\* UserConfig: uid and gid default to 1000 when the configuration gives
\* none; a given value, 0 included, is kept.
DEFAULT_ID == 1000

UserConfigOf(cfg) ==
  [name |-> cfg.production_user,
   uid |-> IF cfg.uid = None THEN DEFAULT_ID ELSE cfg.uid[1],
   gid |-> IF cfg.gid = None THEN DEFAULT_ID ELSE cfg.gid[1]]

\* stage_config.user or config.production.user or "user"
StageUser(stage_config, cfg) ==
  IF stage_config.user # NoStr THEN stage_config.user
  ELSE IF cfg.production_user # NoStr THEN cfg.production_user
  ELSE "user"

\* One entry of stages_data.
StageData(stage_name, stage_config, cfg, stages_dict) ==
  LET r == ProcessStageBuildSteps(stage_config, stage_name, stages_dict) IN
    [name |-> stage_name,
     from |-> stage_config.frm,
     cached_assets |-> r.cached_assets_data,
     package_manager |-> StagePackageManager(stage_config),
     shell |-> StageShell(stage_config),
     user_creation_style |-> StageUserCreationStyle(stage_config),
     user |-> StageUser(stage_config, cfg),
     ordered_steps |-> r.ordered_steps]

(***************************************************************************)
(* The Dockerfile.j2 template: what it renders for one entry of            *)
(* ordered_steps.  A block is the sequence of instructions of one step.    *)
(***************************************************************************)
PASS_THROUGH ==
  {"ARG", "CMD", "COPY", "ENTRYPOINT", "ENV", "EXPOSE", "HEALTHCHECK",
   "LABEL", "RUN", "SHELL", "STOPSIGNAL"}

CHOWN == "--chown=${USER_UID}:${USER_GID}"

\* The lines of a command, split at its line breaks.
RECURSIVE SplitLines(_)
SplitLines(command) ==
  IF ~InList(NEWLINE, command) THEN <<command>>
  ELSE <<FirstLine(command)>>
         \o SplitLines(SubSeq(command, Len(FirstLine(command)) + 2,
                              Len(command)))

\* The lines joined into one command with && between them.
RECURSIVE JoinLines(_)
JoinLines(lines) ==
  IF Len(lines) = 1 THEN Head(lines)
  ELSE Head(lines) \o <<"&&">> \o JoinLines(Tail(lines))

RenderCustom(command) ==
  IF command # <<>> /\ Head(command) \in PASS_THROUGH
    THEN <<command>>
    ELSE << <<"RUN">> \o JoinLines(SplitLines(command)) >>

\* The install command of each package manager.
InstallCommand(package_manager) ==
  CASE package_manager = "apk" -> <<"apk", "add">>
    [] package_manager = "dnf" -> <<"dnf", "install">>
    [] OTHER -> <<"apt-get", "install">>

\* BusyBox adduser names the group; useradd takes the numeric gid.
CreateUserCommand(user_creation_style) ==
  IF user_creation_style = "alpine"
    THEN <<"adduser", "-D", "-G", "${USER_NAME}", "${USER_NAME}">>
    ELSE <<"useradd", "-g", "${USER_GID}", "${USER_NAME}">>

RenderStep(entry, stage_data) ==
  CASE entry.type = "system_packages" ->
         << <<"RUN">> \o InstallCommand(stage_data.package_manager) >>
    [] entry.type = "pip_packages" -> << <<"RUN", "pip", "install">> >>
    [] entry.type = "create_user" ->
         << <<"RUN">> \o CreateUserCommand(stage_data.user_creation_style) >>
    [] entry.type = "switch_user" -> << <<"USER", "${USER_NAME}">> >>
    [] entry.type = "switch_root" -> << <<"USER", "root">> >>
    [] entry.type = "cached_assets" ->
         [i \in DOMAIN stage_data.cached_assets |->
            <<"COPY">> \o stage_data.cached_assets[i].source
                       \o <<stage_data.cached_assets[i].dest>>]
    [] entry.type = "custom" -> RenderCustom(entry.command)

\* The user arguments a stage declares.  The template is handed the name
\* of the user and no ids: the ids it declares are the defaults.
UserArgs(stage_data) ==
  [USER_NAME |-> stage_data.user, USER_UID |-> DEFAULT_ID, USER_GID |-> DEFAULT_ID]

RenderStage(stage_data) ==
  [name |-> stage_data.name,
   args |-> UserArgs(stage_data),
   from |-> stage_data.from,
   user |-> stage_data.user,
   shell |-> stage_data.shell,
   blocks |-> [i \in DOMAIN stage_data.ordered_steps |->
                 RenderStep(stage_data.ordered_steps[i], stage_data)]]

\* template.render(stages=stages_data, ...)
TemplateRender(data) == [i \in DOMAIN data |-> RenderStage(data[i])]

(***************************************************************************)
(* The configurations generation is run on.                                *)
(***************************************************************************)
RECURSIVE SeqsUpTo(_, _)
SeqsUpTo(S, n) ==
  IF n = 0 THEN {<<>>}
  ELSE LET shorter == SeqsUpTo(S, n - 1) IN
    shorter \cup {Append(q, x) : q \in shorter, x \in S}

StageNames == {"base", "development", "production"}

COPY_A_B == <<"copy", "a", "b">>
COPY_AS_USER_A_B == <<"copy_as_user", "a", "b">>
COPY_AS_ROOT_A_B == <<"copy_as_root", "a", "b">>
UPPER_COPY_A_B == <<"COPY", "a", "b">>

\* Steps that decide ownership: user switches and the copy family.
StepVocabulary ==
  {CREATE_USER, SWITCH_USER, BECOME_USER, SWITCH_ROOT, BECOME_ROOT,
   COPY_A_B, COPY_AS_USER_A_B, COPY_AS_ROOT_A_B, UPPER_COPY_A_B}

\* Docker instructions, shell commands, package steps and copy steps with
\* too few arguments.
InstructionVocabulary ==
  {<<kw, "x">> : kw \in PASS_THROUGH} \cup
  {SWITCH_USER, INSTALL_SYSTEM_PACKAGES, INSTALL_PIP_PACKAGES,
   <<"echo", "hello">>, <<"copy">>, <<"copy_as_user", "a">>,
   <<"copy_as_root", "--from=builder", "a">>}

\* Steps that decide the warnings.
DiagnosticVocabulary ==
  {CREATE_USER, SWITCH_USER, BECOME_USER, COPY_CACHED_ASSETS,
   <<"echo", "hello">>}

ASSET == [url |-> "https://example.com/model.bin", dest |-> "/models/model.bin"]

\* Step lists of the stages around the one under study.
ContextStepLists ==
  {Some(<<>>), Some(<<SWITCH_USER>>), Some(<<SWITCH_USER, SWITCH_ROOT>>)}

DiagnosticContextStepLists ==
  {None, Some(<<>>), Some(<<CREATE_USER>>), Some(<<SWITCH_USER>>)}

StageOf(frm, build_steps, user, cached_assets) ==
  [frm |-> frm, build_steps |-> build_steps, user |-> user,
   cached_assets |-> cached_assets,
   package_manager |-> NoStr, shell |-> None]

ConfigOf(subject, steps, user, assets, others, production_frm, production_user) ==
  [stage_names |-> <<"base", "development", "production">>,
   stages |->
     [n \in StageNames |->
        StageOf(CASE n = "base" -> "python:3-slim"
                  [] n = "development" -> "base"
                  [] n = "production" -> production_frm,
                IF n = subject THEN steps ELSE others[n],
                IF n = subject THEN user ELSE NoStr,
                IF n = subject THEN assets ELSE <<>>)],
   production_user |-> production_user,
   uid |-> None,
   gid |-> None]

\* Configurations that vary the steps deciding ownership.
OwnershipConfig ==
  \E subject \in StageNames,
     steps \in SeqsUpTo(StepVocabulary, MaxSteps),
     others \in [StageNames -> ContextStepLists],
     production_frm \in {"base", "development"} :
    config = ConfigOf(subject, Some(steps), NoStr, <<>>, others,
                      production_frm, "appuser")

\* Configurations that vary the instructions of one stage.
InstructionConfig ==
  \E steps \in SeqsUpTo(InstructionVocabulary, MaxSteps) :
    config = ConfigOf("base", Some(steps), NoStr, <<>>,
                      [n \in StageNames |-> Some(<<>>)], "base", "appuser")

\* Configurations that vary what the warnings depend on.
DiagnosticConfig ==
  \E subject \in StageNames,
     steps \in {None} \cup {Some(q) : q \in SeqsUpTo(DiagnosticVocabulary, MaxSteps)},
     user \in {NoStr, "stageuser"},
     assets \in SeqsUpTo({ASSET}, MaxAssets),
     others \in [StageNames -> DiagnosticContextStepLists],
     production_frm \in {"base", "development"},
     production_user \in {NoStr, "appuser"} :
    config = ConfigOf(subject, steps, user, assets, others,
                      production_frm, production_user)

\* The generated files besides the Dockerfile.
OtherArtifacts == {"Justfile", "build.sh", "run.sh"}
Artifacts == {"Dockerfile"} \cup OtherArtifacts

\* A project directory with no generated file in it.
NoFiles == [a \in OtherArtifacts |-> None]
NothingBefore == [a \in Artifacts |-> None]

\* No call of generate_standalone_command_scripts is under way.
StandaloneIdle ==
  /\ output_dir = <<>>
  /\ existing_scripts = {}
  /\ generated_scripts = <<>>
  /\ commands_left = <<>>

\* The environment of one call of generate_dockerfile.
SingleCall ==
  /\ files = NoFiles
  /\ previous = NothingBefore
  /\ host_runtime = "docker"
  /\ run = 1
  /\ pending = <<>>
  /\ StandaloneIdle

\* Images and per-stage settings the detected values depend on.
Images == {"python:3-slim", "alpine:3.19", "fedora:39"}
PackageManagerSettings == {NoStr, "apt", "apk", "dnf"}
ShellSettings == {None, Some(""), Some("/bin/zsh")}
ConfiguredStages == {"base", "development"}

\* Configurations that vary the image of the base stage and the settings
\* of the base stage and of a stage built from it.
DetectionConfig ==
  \E image \in Images,
     package_managers \in [ConfiguredStages -> PackageManagerSettings],
     shells \in [ConfiguredStages -> ShellSettings],
     production_frm \in {"base", "development"} :
    LET plain == ConfigOf("base", Some(<<CREATE_USER, INSTALL_SYSTEM_PACKAGES>>),
                          NoStr, <<>>,
                          [n \in StageNames |->
                             Some(<<CREATE_USER, INSTALL_SYSTEM_PACKAGES>>)],
                          production_frm, "appuser")
    IN config =
         [plain EXCEPT !.stages =
            [n \in StageNames |->
               [plain.stages[n] EXCEPT
                  !.frm = IF n = "base" THEN image ELSE @,
                  !.package_manager =
                     IF n \in ConfiguredStages THEN package_managers[n] ELSE @,
                  !.shell = IF n \in ConfiguredStages THEN shells[n] ELSE @]]]

\* Configurations that vary the ids given for the user.
IdSettings == {None, Some(0), Some(1000), Some(2000)}

UserIdConfig ==
  \E uid \in IdSettings, gid \in IdSettings, name \in {"appuser", "specialroot"} :
    config = [ConfigOf("base", Some(<<CREATE_USER>>), NoStr, <<>>,
                       [n \in StageNames |-> Some(<<>>)], "base", name)
                EXCEPT !.uid = uid, !.gid = gid]

COPY_FROM_A_B == <<"copy", "--from=builder", "a", "b">>
COPY_AS_USER_FROM_A_B == <<"copy_as_user", "--from=builder", "a", "b">>
COPY_AS_ROOT_FROM_A_B == <<"copy_as_root", "--from=builder", "a", "b">>
TWO_LINES == <<"apt-get", "update", NEWLINE, "apt-get", "install", "curl">>
RUN_ECHO == <<"RUN", "echo", "hello">>

\* Copies from another stage, user switches and shell commands of one and
\* of two lines.
CommandVocabulary ==
  {SWITCH_USER, SWITCH_ROOT, COPY_FROM_A_B, COPY_AS_USER_FROM_A_B,
   COPY_AS_ROOT_FROM_A_B, TWO_LINES, RUN_ECHO, <<"echo", "hello">>}

\* Configurations that vary the commands of one stage.
CommandConfig ==
  \E steps \in SeqsUpTo(CommandVocabulary, MaxSteps) :
    config = ConfigOf("base", Some(steps), NoStr, <<>>,
                      [n \in StageNames |-> Some(<<>>)], "base", "appuser")

OTHER_ASSET == [url |-> "https://example.com/vocab.txt", dest |-> "/models/vocab.txt"]

\* Configurations that vary the cached assets of one stage and whether its
\* steps copy them.
AssetConfig ==
  \E subject \in StageNames,
     steps \in SeqsUpTo({COPY_CACHED_ASSETS, <<"echo", "hello">>}, MaxSteps),
     assets \in SeqsUpTo({ASSET, OTHER_ASSET}, MaxCachedAssets) :
    config = ConfigOf(subject, Some(steps), NoStr, assets,
                      [n \in StageNames |-> Some(<<>>)], "base", "appuser")

\* What a stage can name in its `from`: an image, a stage, itself, nothing
\* that exists.
FromSettings ==
  {"python:3-slim", "base", "development", "production", "nonexistent"}

\* Configurations that vary the `from` of every stage, cycles and dangling
\* names included.
FromConfig ==
  \E frms \in [StageNames -> FromSettings],
     others \in [StageNames -> {Some(<<>>), Some(<<SWITCH_USER>>)}] :
    LET plain == ConfigOf("base", others["base"], NoStr, <<>>, others,
                          "base", "appuser")
    IN config =
         [plain EXCEPT !.stages =
            [n \in StageNames |-> [plain.stages[n] EXCEPT !.frm = frms[n]]]]

Init ==
  /\ \/ OwnershipConfig \/ InstructionConfig \/ DiagnosticConfig
     \/ DetectionConfig \/ UserIdConfig \/ CommandConfig \/ AssetConfig
     \/ FromConfig
  /\ pc = "start"
  /\ stages = <<>>
  /\ stage_order = <<>>
  /\ stages_data = <<>>
  /\ stderr = <<>>
  /\ dockerfile_content = <<>>
  /\ output_file = None
  /\ raised = NoStr
  /\ frm_arg = NoStr
  /\ current = NoStr
  /\ visited_set = {}
  /\ iterations = 0
  /\ returned = None
  /\ base_image = <<>>
  /\ detected = None
  /\ SingleCall

(***************************************************************************)
(* generate_dockerfile                                                     *)
(***************************************************************************)
\* stages = dict(config.stages), plus the default development and
\* production stages when missing.
Missing(cfg) ==
  SelectSeq(<<"development", "production">>,
            LAMBDA n : ~InList(n, cfg.stage_names))

Start ==
  /\ pc = "start"
  /\ stage_order' = config.stage_names \o Missing(config)
  /\ stages' = [n \in {stage_order'[i] : i \in DOMAIN stage_order'} |->
                  IF InList(n, config.stage_names) THEN config.stages[n]
                  ELSE DefaultStage]
  /\ pc' = "stages"
  /\ UNCHANGED <<config, stages_data, stderr, dockerfile_content,
                 output_file, raised>>
  /\ UNCHANGED <<resolver_vars, detector_vars, standalone_vars, update_vars>>

\* The iteration with warnings treated as errors.
ProcessStageWarningsFatal ==
  /\ pc = "stages"
  /\ Len(stages_data) < Len(stage_order)
  /\ LET stage_name == stage_order[Len(stages_data) + 1]
         stage_config == stages[stage_name]
         printed == ProcessStageBuildSteps(stage_config, stage_name, stages).printed
     IN /\ stderr' = stderr \o printed
        /\ IF printed # <<>>
             THEN /\ raised' = "warning"
                  /\ pc' = "failed"
                  /\ UNCHANGED stages_data
             ELSE /\ stages_data' =
                       Append(stages_data,
                              StageData(stage_name, stage_config, config, stages))
                  /\ UNCHANGED <<pc, raised>>
  /\ UNCHANGED <<config, stages, stage_order, dockerfile_content, output_file>>
  /\ UNCHANGED <<resolver_vars, detector_vars, standalone_vars, update_vars>>

\* One iteration of `for stage_name, stage_config in stages.items()`.
ProcessStage ==
  /\ pc = "stages"
  /\ Len(stages_data) < Len(stage_order)
  /\ LET stage_name == stage_order[Len(stages_data) + 1]
         stage_config == stages[stage_name]
     IN /\ stages_data' =
             Append(stages_data,
                    StageData(stage_name, stage_config, config, stages))
        /\ stderr' = stderr \o
             ProcessStageBuildSteps(stage_config, stage_name, stages).printed
  /\ UNCHANGED <<config, pc, stages, stage_order, dockerfile_content,
                 output_file, raised>>
  /\ UNCHANGED <<resolver_vars, detector_vars, standalone_vars, update_vars>>

Render ==
  /\ pc = "stages"
  /\ Len(stages_data) = Len(stage_order)
  /\ dockerfile_content' = TemplateRender(stages_data)
  /\ pc' = "write"
  /\ UNCHANGED <<config, stages, stage_order, stages_data, stderr,
                 output_file, raised>>
  /\ UNCHANGED <<resolver_vars, detector_vars, standalone_vars, update_vars>>

\* open(output_path, "a"): the file keeps what it holds.
OpenForAppend ==
  /\ pc = "write"
  /\ output_file' = IF output_file = None THEN Some(<<>>) ELSE output_file
  /\ pc' = "writing"
  /\ UNCHANGED <<config, stages, stage_order, stages_data, stderr,
                 dockerfile_content, raised>>
  /\ UNCHANGED <<resolver_vars, detector_vars, standalone_vars, update_vars>>

\* open(output_path, "w"): the file exists and is empty.
Open ==
  /\ pc = "write"
  /\ output_file' = Some(<<>>)
  /\ pc' = "writing"
  /\ UNCHANGED <<config, stages, stage_order, stages_data, stderr,
                 dockerfile_content, raised>>
  /\ UNCHANGED <<resolver_vars, detector_vars, standalone_vars, update_vars>>

\* f.write(dockerfile_content)
Write ==
  /\ pc = "writing"
  /\ output_file' = Some(output_file[1] \o dockerfile_content)
  /\ pc' = "done"
  /\ UNCHANGED <<config, stages, stage_order, stages_data, stderr,
                 dockerfile_content, raised>>
  /\ UNCHANGED <<resolver_vars, detector_vars, standalone_vars, update_vars>>

Next == Start \/ ProcessStage \/ Render \/ Open \/ Write

Spec == Init /\ [][Next]_vars

(***************************************************************************)
(* cli/main.py  update: generate_dockerfile, generate_justfile,            *)
(* generate_build_script and generate_run_script in sequence.  The content *)
(* of a file is a sequence: the arguments its template is rendered from.   *)
(***************************************************************************)
RUNTIME_NOT_FOUND == "Neither Docker nor Podman found"

\* hashlib.sha256(f.read()).hexdigest() of the configuration file.
ConfigHash(cfg) == [sha256 |-> cfg]

\* "development" if "development" in config.stages else "base"
DevStage(cfg) ==
  IF InList("development", cfg.stage_names) THEN "development" ELSE "base"

JustfileContent(cfg, runtime) ==
  << [template |-> "Justfile.j2",
      config_hash |-> ConfigHash(cfg),
      runtime |-> runtime,
      shell |-> StageShell(cfg.stages[DevStage(cfg)]),
      dev_stage |-> DevStage(cfg)] >>

BuildScriptContent(cfg) ==
  << [template |-> "build.sh.j2",
      available_stages |-> cfg.stage_names,
      production_user |-> cfg.production_user] >>

\* "production" if "production" in config.stages else "base"
ProdStage(cfg) ==
  IF InList("production", cfg.stage_names) THEN "production" ELSE "base"

RunScriptContent(cfg) ==
  LET shell == cfg.stages[ProdStage(cfg)].shell IN
  << [template |-> "run.sh.j2",
      workdir |-> IF cfg.production_user = "root" THEN <<"/root">>
                  ELSE <<"/home/", cfg.production_user>>,
      shell |-> IF shell # None /\ shell[1] # "" THEN shell[1] ELSE "bash"] >>

\* What an earlier generation, of another configuration, left in a file.
STALE == << [template |-> "stale"] >>

\* Configurations `cm update` is run on.
UpdateConfig ==
  \E steps \in SeqsUpTo({CREATE_USER, SWITCH_USER, <<"echo", "hello">>}, MaxSteps),
     shell \in {None, Some("/bin/zsh")},
     production_user \in {"appuser", "root"} :
    LET plain == ConfigOf("base", Some(steps), NoStr, <<>>,
                          [n \in StageNames |-> Some(<<>>)], "base",
                          production_user)
    IN config = [plain EXCEPT !.stages["production"].shell = shell]

InitUpdate ==
  /\ UpdateConfig
  /\ host_runtime \in {NoStr, "docker", "podman"}
  /\ \E left \in SUBSET Artifacts :
       previous = [a \in Artifacts |-> IF a \in left THEN Some(STALE) ELSE None]
  /\ output_file = previous["Dockerfile"]
  /\ files = [a \in OtherArtifacts |-> previous[a]]
  /\ run = 1
  /\ pending = <<>>
  /\ pc = "start"
  /\ stages = <<>>
  /\ stage_order = <<>>
  /\ stages_data = <<>>
  /\ stderr = <<>>
  /\ dockerfile_content = <<>>
  /\ raised = NoStr
  /\ frm_arg = NoStr
  /\ current = NoStr
  /\ visited_set = {}
  /\ iterations = 0
  /\ returned = None
  /\ base_image = <<>>
  /\ detected = None
  /\ StandaloneIdle

UnchangedByGenerators ==
  UNCHANGED <<config, stages, stage_order, stages_data, stderr,
              dockerfile_content, output_file, previous, host_runtime, run,
              resolver_vars, detector_vars, standalone_vars>>

\* template.render(...) into a local, then the next step.
RenderThen(content, next_pc) ==
  /\ pending' = content
  /\ pc' = next_pc
  /\ UNCHANGED <<files, raised>>
  /\ UnchangedByGenerators

\* open(path, "w"): the file exists and is empty.
OpenThen(artifact, next_pc) ==
  /\ files' = [files EXCEPT ![artifact] = Some(<<>>)]
  /\ pc' = next_pc
  /\ UNCHANGED <<pending, raised>>
  /\ UnchangedByGenerators

\* f.write(content)
WriteThen(artifact, next_pc) ==
  /\ files' = [files EXCEPT ![artifact] = Some(files[artifact][1] \o pending)]
  /\ pc' = next_pc
  /\ UNCHANGED <<pending, raised>>
  /\ UnchangedByGenerators

\* generate_justfile up to its render: get_runtime raises when the host
\* has neither docker nor podman.
JustfileRender ==
  /\ pc = "done"
  /\ IF host_runtime = NoStr
       THEN /\ raised' = RUNTIME_NOT_FOUND
            /\ pc' = "failed"
            /\ UNCHANGED <<files, pending>>
            /\ UnchangedByGenerators
       ELSE RenderThen(JustfileContent(config, host_runtime), "justfile_open")

JustfileOpen == pc = "justfile_open" /\ OpenThen("Justfile", "justfile_writing")

JustfileWrite == pc = "justfile_writing" /\ WriteThen("Justfile", "build_script")

BuildScriptRender ==
  pc = "build_script" /\ RenderThen(BuildScriptContent(config), "build_script_open")

BuildScriptOpen ==
  pc = "build_script_open" /\ OpenThen("build.sh", "build_script_writing")

BuildScriptWrite ==
  pc = "build_script_writing" /\ WriteThen("build.sh", "run_script")

RunScriptRender ==
  pc = "run_script" /\ RenderThen(RunScriptContent(config), "run_script_open")

RunScriptOpen == pc = "run_script_open" /\ OpenThen("run.sh", "run_script_writing")

RunScriptWrite == pc = "run_script_writing" /\ WriteThen("run.sh", "finished")

\* `cm update` is run once more on what the run before left.
UpdateAgain ==
  /\ pc = "finished"
  /\ run < MaxRuns
  /\ run' = run + 1
  /\ previous' = [a \in Artifacts |->
                    IF a = "Dockerfile" THEN output_file ELSE files[a]]
  /\ pc' = "start"
  /\ stages' = <<>>
  /\ stage_order' = <<>>
  /\ stages_data' = <<>>
  /\ stderr' = <<>>
  /\ dockerfile_content' = <<>>
  /\ pending' = <<>>
  /\ UNCHANGED <<config, output_file, files, raised, host_runtime,
                 resolver_vars, detector_vars, standalone_vars>>

NextUpdate ==
  \/ Start \/ ProcessStage \/ Render \/ Open \/ Write
  \/ JustfileRender \/ JustfileOpen \/ JustfileWrite
  \/ BuildScriptRender \/ BuildScriptOpen \/ BuildScriptWrite
  \/ RunScriptRender \/ RunScriptOpen \/ RunScriptWrite
  \/ UpdateAgain

SpecUpdate == InitUpdate /\ [][NextUpdate]_vars

(***************************************************************************)
(* core/templates.py  resolve_base_image(frm, stages)                      *)
(***************************************************************************)
CIRCULAR == "Circular stage reference detected"
NOT_FOUND == "Cannot resolve base image"

\* The stage keys and the `from` values the stage maps are drawn from.
ResolveStageNames == StageNames \cup {"local/base"}
ResolveTokens ==
  ResolveStageNames \cup {"alpine:3.19", "ghcr.io/org/image", "nonexistent"}

\* Variables of generate_dockerfile, idle while a function is applied alone.
GeneratorIdle ==
  /\ config = <<>>
  /\ stage_order = <<>>
  /\ stages_data = <<>>
  /\ stderr = <<>>
  /\ dockerfile_content = <<>>
  /\ output_file = None
  /\ SingleCall

InitResolve ==
  /\ \E keys \in SUBSET ResolveStageNames :
       \E links \in [keys -> ResolveTokens] :
         stages = [n \in keys |-> [frm |-> links[n]]]
  /\ frm_arg \in ResolveTokens
  /\ pc = "call"
  /\ current = NoStr
  /\ visited_set = {}
  /\ iterations = 0
  /\ returned = None
  /\ raised = NoStr
  /\ base_image = <<>>
  /\ detected = None
  /\ GeneratorIdle

\* visited = set(); current = frm
ResolveCall ==
  /\ pc = "call"
  /\ visited_set' = {}
  /\ current' = frm_arg
  /\ iterations' = 0
  /\ pc' = "loop"
  /\ UNCHANGED <<config, stages, stage_order, stages_data, stderr,
                 dockerfile_content, output_file, raised, frm_arg, returned,
                 detector_vars, standalone_vars, update_vars>>

\* The loop with `break` in place of the raise.
ResolveIterateBreak ==
  /\ pc = "loop"
  /\ current \in DOMAIN stages
  /\ iterations' = iterations + 1
  /\ IF current \in visited_set
       THEN /\ IF IsImageRef(current)
                 THEN /\ returned' = Some(current)
                      /\ pc' = "returned"
                      /\ UNCHANGED raised
                 ELSE /\ raised' = NOT_FOUND
                      /\ pc' = "raised"
                      /\ UNCHANGED returned
            /\ UNCHANGED <<current, visited_set>>
       ELSE /\ visited_set' = visited_set \cup {current}
            /\ current' = stages[current].frm
            /\ UNCHANGED <<pc, raised, returned>>
  /\ UNCHANGED <<config, stages, stage_order, stages_data, stderr,
                 dockerfile_content, output_file, frm_arg, detector_vars, standalone_vars, update_vars>>

\* The loop that does not record the stages it has been at.
ResolveIterateUnmarked ==
  /\ pc = "loop"
  /\ current \in DOMAIN stages
  /\ iterations' = iterations + 1
  /\ IF current \in visited_set
       THEN /\ raised' = CIRCULAR
            /\ pc' = "raised"
            /\ UNCHANGED <<current, visited_set>>
       ELSE /\ current' = stages[current].frm
            /\ UNCHANGED <<pc, raised, visited_set>>
  /\ UNCHANGED <<config, stages, stage_order, stages_data, stderr,
                 dockerfile_content, output_file, frm_arg, returned,
                 detector_vars, standalone_vars, update_vars>>

\* One iteration of `while current in stages`.
ResolveIterate ==
  /\ pc = "loop"
  /\ current \in DOMAIN stages
  /\ iterations' = iterations + 1
  /\ IF current \in visited_set
       THEN /\ raised' = CIRCULAR
            /\ pc' = "raised"
            /\ UNCHANGED <<current, visited_set>>
       ELSE /\ visited_set' = visited_set \cup {current}
            /\ current' = stages[current].frm
            /\ UNCHANGED <<pc, raised>>
  /\ UNCHANGED <<config, stages, stage_order, stages_data, stderr,
                 dockerfile_content, output_file, frm_arg, returned,
                 detector_vars, standalone_vars, update_vars>>

\* The code after the loop without its test of the token.
ResolveExitUnchecked ==
  /\ pc = "loop"
  /\ current \notin DOMAIN stages
  /\ returned' = Some(current)
  /\ pc' = "returned"
  /\ UNCHANGED <<config, stages, stage_order, stages_data, stderr,
                 dockerfile_content, output_file, raised, frm_arg, current,
                 visited_set, iterations, detector_vars, standalone_vars,
                 update_vars>>

\* The code after the loop: return the image or raise.
ResolveExit ==
  /\ pc = "loop"
  /\ current \notin DOMAIN stages
  /\ IF IsImageRef(current)
       THEN /\ returned' = Some(current)
            /\ pc' = "returned"
            /\ UNCHANGED raised
       ELSE /\ raised' = NOT_FOUND
            /\ pc' = "raised"
            /\ UNCHANGED returned
  /\ UNCHANGED <<config, stages, stage_order, stages_data, stderr,
                 dockerfile_content, output_file, frm_arg, current,
                 visited_set, iterations, detector_vars, standalone_vars,
                 update_vars>>

NextResolve == ResolveCall \/ ResolveIterate \/ ResolveExit

SpecResolve == InitResolve /\ [][NextResolve]_vars

(***************************************************************************)
(* generators/dockerfile.py  process_stage_build_steps: the walk up the    *)
(* stage hierarchy that looks for create_user, one loop iteration at a     *)
(* time.  frm_arg is stage_name, current is current_stage_name and         *)
(* returned holds user_created.                                            *)
(***************************************************************************)
WalkStepLists ==
  {None, Some(<<SWITCH_USER>>), Some(<<CREATE_USER>>),
   Some(<<SWITCH_USER, CREATE_USER>>)}

\* The flags the loop over the steps of a stage leaves behind.
FlagsOf(stage) == ProcessSteps(LoopStart, BuildSteps(stage))

\* A stage map and a stage of it that uses switch_user.
InitWalk ==
  /\ \E frms \in [StageNames -> FromSettings],
        step_lists \in [StageNames -> WalkStepLists] :
       stages = [n \in StageNames |->
                   StageOf(frms[n], step_lists[n], NoStr, <<>>)]
  /\ frm_arg \in StageNames
  /\ FlagsOf(stages[frm_arg]).has_switch_user
  /\ pc = "walk_call"
  /\ current = NoStr
  /\ visited_set = {}
  /\ iterations = 0
  /\ returned = None
  /\ raised = NoStr
  /\ base_image = <<>>
  /\ detected = None
  /\ GeneratorIdle

UnchangedByWalk ==
  UNCHANGED <<config, stages, stage_order, stages_data, dockerfile_content,
              output_file, raised, frm_arg, detector_vars, standalone_vars,
              update_vars>>

\* user_created = has_create_user; current_stage_name = stage_name;
\* visited = set()
WalkCall ==
  /\ pc = "walk_call"
  /\ returned' = Some(FlagsOf(stages[frm_arg]).has_create_user)
  /\ current' = frm_arg
  /\ visited_set' = {}
  /\ iterations' = 0
  /\ pc' = "walk"
  /\ UNCHANGED stderr
  /\ UnchangedByWalk

\* What follows the loop: the warning when no create_user was found.
WalkWarning(user_created) ==
  IF ~user_created THEN <<Warning(frm_arg, "no_create_user")>> ELSE <<>>

\* One iteration of `while not user_created and current_stage_name in
\* stages_dict`; a break runs on into the code after the loop.
WalkIterate ==
  /\ pc = "walk"
  /\ ~returned[1]
  /\ current \in DOMAIN stages
  /\ iterations' = iterations + 1
  /\ IF current \in visited_set
       THEN /\ pc' = "walked"
            /\ stderr' = stderr \o WalkWarning(FALSE)
            /\ UNCHANGED <<current, visited_set, returned>>
     ELSE /\ visited_set' = visited_set \cup {current}
          /\ LET current_stage == stages[current] IN
               IF /\ current_stage.build_steps # None
                  /\ current_stage.build_steps[1] # <<>>
                  /\ InList(CREATE_USER, current_stage.build_steps[1])
                 THEN /\ returned' = Some(TRUE)
                      /\ pc' = "walked"
                      /\ UNCHANGED <<current, stderr>>
               ELSE IF current_stage.frm \in DOMAIN stages
                 THEN /\ current' = current_stage.frm
                      /\ UNCHANGED <<pc, returned, stderr>>
               ELSE /\ pc' = "walked"
                    /\ stderr' = stderr \o WalkWarning(FALSE)
                    /\ UNCHANGED <<current, returned>>
  /\ UnchangedByWalk

\* The loop condition is false: the code after the loop.
WalkExit ==
  /\ pc = "walk"
  /\ returned[1] \/ current \notin DOMAIN stages
  /\ pc' = "walked"
  /\ stderr' = stderr \o WalkWarning(returned[1])
  /\ UNCHANGED <<current, visited_set, returned, iterations>>
  /\ UnchangedByWalk

NextWalk == WalkCall \/ WalkIterate \/ WalkExit

\* Either traversal of the stage map, run to its end.
InitTraversal == InitResolve \/ InitWalk

NextTraversal == NextResolve \/ NextWalk

SpecTraversal ==
  InitTraversal /\ [][NextTraversal]_vars /\ WF_vars(NextTraversal)

(***************************************************************************)
(* The detect_* functions applied to image names.                          *)
(***************************************************************************)
\* Pieces of image names; a name is up to MaxFragments of them in a row.
Fragments ==
  {ALPINE, <<"A","l","p","i","n","e">>, <<"A","L","P">>, <<"a","l","p">>,
   <<"i","n","e">>, <<"I","N","E">>, <<"f","e","d","o","r","a">>,
   <<"C","e","n","t","O","S">>, <<"r","h","e","l">>, <<"R","o","c","k","y">>,
   <<"a","l","m","a">>, <<"d","e","b","i","a","n">>, <<"u","b","u","n","t","u">>,
   <<":">>, <<"/">>, <<"3">>}

RECURSIVE Flatten(_)
Flatten(parts) ==
  IF parts = <<>> THEN <<>> ELSE Head(parts) \o Flatten(Tail(parts))

NotDetected == [package_manager |-> NoStr, shell |-> NoStr,
                user_creation_style |-> NoStr]

InitDetect ==
  /\ \E parts \in SeqsUpTo(Fragments, MaxFragments) :
       base_image = Flatten(parts)
  /\ detected = NotDetected
  /\ pc = "call"
  /\ stages = <<>>
  /\ frm_arg = NoStr
  /\ current = NoStr
  /\ visited_set = {}
  /\ iterations = 0
  /\ returned = None
  /\ raised = NoStr
  /\ GeneratorIdle

UnchangedByDetect ==
  UNCHANGED <<config, pc, stages, stage_order, stages_data, stderr,
              dockerfile_content, output_file, raised, resolver_vars,
              base_image, update_vars, standalone_vars>>

DetectPackageManagerCall ==
  /\ pc = "call"
  /\ detected.package_manager = NoStr
  /\ detected' = [detected EXCEPT
                    !.package_manager = DetectPackageManager(base_image)]
  /\ UnchangedByDetect

DetectShellCall ==
  /\ pc = "call"
  /\ detected.shell = NoStr
  /\ detected' = [detected EXCEPT !.shell = DetectShell(base_image)]
  /\ UnchangedByDetect

DetectUserCreationStyleCall ==
  /\ pc = "call"
  /\ detected.user_creation_style = NoStr
  /\ detected' = [detected EXCEPT
                    !.user_creation_style = DetectUserCreationStyle(base_image)]
  /\ UnchangedByDetect

NextDetect ==
  DetectPackageManagerCall \/ DetectShellCall \/ DetectUserCreationStyleCall

SpecDetect == InitDetect /\ [][NextDetect]_vars

(***************************************************************************)
(* What the properties below speak about.                                  *)
(***************************************************************************)
\* The stages of the written Dockerfile.
Written == output_file[1]

\* The steps of a stage of the working stage map.
StepsOf(stage_name) == BuildSteps(stages[stage_name])

\* The entry the loop derives from one step.
EntryFor(step) == ProcessStep(LoopStart, step).ordered_steps[1]

\* The ownership context: USER after switch_user/become_user, ROOT after
\* switch_root/become_root, unchanged by every other step.
ContextStep(ctx, step) ==
  IF step \in {SWITCH_USER, BECOME_USER} THEN "USER"
  ELSE IF step \in {SWITCH_ROOT, BECOME_ROOT} THEN "ROOT"
  ELSE ctx

RECURSIVE ContextAfter(_, _)
ContextAfter(ctx, steps) ==
  IF steps = <<>> THEN ctx
  ELSE ContextAfter(ContextStep(ctx, Head(steps)), Tail(steps))

HasSwitch(steps) ==
  \E i \in DOMAIN steps :
    steps[i] \in {SWITCH_USER, BECOME_USER, SWITCH_ROOT, BECOME_ROOT}

\* The context left by the nearest stage, from frm outward, that has a
\* switch step; ROOT when there is none.
RECURSIVE InheritedContext(_, _, _)
InheritedContext(frm, visited, stages_dict) ==
  IF frm \notin DOMAIN stages_dict \/ frm \in visited THEN "ROOT"
  ELSE LET steps == BuildSteps(stages_dict[frm]) IN
    IF HasSwitch(steps) THEN ContextAfter("ROOT", steps)
    ELSE InheritedContext(stages_dict[frm].frm, visited \cup {frm}, stages_dict)

EntryContext(stage_name) ==
  InheritedContext(stages[stage_name].frm, {stage_name}, stages)

ContextAt(stage_name, i) ==
  ContextAfter(EntryContext(stage_name), SubSeq(StepsOf(stage_name), 1, i - 1))

HasChown(block) == \E j \in DOMAIN block : InList(CHOWN, block[j])

Keyword(step) == IF step = <<>> THEN "" ELSE Head(step)

\* C1: a lowercase copy step is emitted with the chown annotation iff the
\* ownership context at its position is USER.
C1_CopyChownIffUserContext ==
  pc = "done" =>
    \A k \in DOMAIN stage_order :
      \A i \in DOMAIN StepsOf(stage_order[k]) :
        Keyword(StepsOf(stage_order[k])[i]) = "copy" =>
          (HasChown(Written[k].blocks[i])
             <=> ContextAt(stage_order[k], i) = "USER")

\* C2: the entry context of a stage is the one left by the nearest ancestor
\* with a switch step, so a copy that opens a stage is chown-annotated iff
\* that inherited context is USER.
C2_EntryContextFromNearestAncestor ==
  pc = "done" =>
    \A k \in DOMAIN stage_order :
      LET steps == StepsOf(stage_order[k]) IN
        (steps # <<>> /\ Keyword(Head(steps)) = "copy") =>
          (HasChown(Written[k].blocks[1])
             <=> InheritedContext(stages[stage_order[k]].frm,
                                  {stage_order[k]}, stages) = "USER")

\* C3: copy_as_user always emits COPY with the chown annotation and
\* copy_as_root always emits COPY without it.
C3_CopyAsUserAlwaysCopyAsRootNever ==
  pc = "done" =>
    \A k \in DOMAIN stage_order :
      \A i \in DOMAIN StepsOf(stage_order[k]) :
        LET step == StepsOf(stage_order[k])[i] IN
          /\ step = COPY_AS_USER_A_B =>
               Written[k].blocks[i] = << <<"COPY", CHOWN, "a", "b">> >>
          /\ step = COPY_AS_ROOT_A_B =>
               Written[k].blocks[i] = << <<"COPY", "a", "b">> >>

\* The instruction keywords the pass-through rule names.
VERBATIM ==
  {"ARG", "CMD", "COPY", "ENTRYPOINT", "ENV", "EXPOSE", "HEALTHCHECK",
   "LABEL", "SHELL", "STOPSIGNAL"}

Canonical(step) ==
  IF step = BECOME_USER THEN SWITCH_USER
  ELSE IF step = BECOME_ROOT THEN SWITCH_ROOT
  ELSE step

CanonicalStage(stage) ==
  [stage EXCEPT !.build_steps =
     IF stage.build_steps = None THEN None
     ELSE Some([i \in DOMAIN stage.build_steps[1] |->
                  Canonical(stage.build_steps[1][i])])]

CanonicalConfig(cfg) ==
  [cfg EXCEPT !.stages = [n \in DOMAIN cfg.stages |-> CanonicalStage(cfg.stages[n])]]

\* What generation writes and prints for a configuration.
ContentOf(cfg) ==
  TemplateRender([k \in DOMAIN cfg.stage_names |->
    StageData(cfg.stage_names[k], cfg.stages[cfg.stage_names[k]], cfg, cfg.stages)])

RECURSIVE PrintedOf(_, _)
PrintedOf(cfg, k) ==
  IF k = 0 THEN <<>>
  ELSE PrintedOf(cfg, k - 1) \o
       ProcessStageBuildSteps(cfg.stages[cfg.stage_names[k]],
                              cfg.stage_names[k], cfg.stages).printed

\* C5: become_user and become_root are aliases of switch_user and
\* switch_root: generation writes and prints what it does for the
\* configuration with every alias replaced.
C5_BecomeIsAliasOfSwitch ==
  pc = "done" =>
    /\ Written = ContentOf(CanonicalConfig(config))
    /\ stderr = PrintedOf(CanonicalConfig(config), Len(config.stage_names))

\* C6: the compiled sequence of a stage has one entry per step, entry i
\* derived from step i.
C6_OneEntryPerStepInOrder ==
  \A k \in DOMAIN stages_data :
    LET steps == StepsOf(stages_data[k].name) IN
      /\ Len(stages_data[k].ordered_steps) = Len(steps)
      /\ \A i \in DOMAIN steps :
           stages_data[k].ordered_steps[i] = EntryFor(steps[i])

\* A stage with two different steps has been compiled.
C6_Witness ==
  \E k \in DOMAIN stages_data :
    LET steps == StepsOf(stages_data[k].name) IN
      /\ Len(steps) >= 2
      /\ steps[1] # steps[2]
      /\ EntryFor(steps[1]) # EntryFor(steps[2])
      /\ Len(stages_data[k].ordered_steps) = Len(steps)

UserKeywords == {CREATE_USER, SWITCH_USER, BECOME_USER}

UsesUserKeyword(cfg) ==
  \E n \in DOMAIN cfg.stages :
    /\ cfg.stages[n].build_steps # None
    /\ \E i \in DOMAIN cfg.stages[n].build_steps[1] :
         cfg.stages[n].build_steps[1][i] \in UserKeywords

NoUserResolves(cfg) ==
  /\ cfg.production_user = NoStr
  /\ \A n \in DOMAIN cfg.stages : cfg.stages[n].user = NoStr

\* C7: with no user configured, explicit create_user, switch_user or
\* become_user is fatal: nothing is written and the run does not complete.
C7_UserKeywordWithoutUserIsFatal ==
  (NoUserResolves(config) /\ UsesUserKeyword(config)) =>
    (output_file = None /\ pc # "done")

\* create_user among the explicit steps of the stage or of a stage on its
\* from chain.
RECURSIVE ChainCreatesUser(_, _, _)
ChainCreatesUser(stage_name, visited, stages_dict) ==
  IF stage_name \notin DOMAIN stages_dict \/ stage_name \in visited THEN FALSE
  ELSE \/ /\ stages_dict[stage_name].build_steps # None
          /\ InList(CREATE_USER, stages_dict[stage_name].build_steps[1])
       \/ ChainCreatesUser(stages_dict[stage_name].frm,
                           visited \cup {stage_name}, stages_dict)

\* C8: the "no 'create_user' found" warning is printed for a stage iff its
\* steps contain switch_user or become_user and no stage of its chain
\* contains create_user.
C8_NoCreateUserWarningIff ==
  pc = "done" =>
    \A k \in DOMAIN stage_order :
      InList(Warning(stage_order[k], "no_create_user"), stderr)
        <=> /\ \/ InList(SWITCH_USER, StepsOf(stage_order[k]))
               \/ InList(BECOME_USER, StepsOf(stage_order[k]))
            /\ ~ChainCreatesUser(stage_order[k], {}, stages)

\* C9: warnings never stop compilation: the run raises nothing, can always
\* go on until the Dockerfile is written, and every step of every stage is
\* written as the step alone determines.
C9_WarningsDoNotStopCompilation ==
  /\ raised = NoStr
  /\ pc # "done" => ENABLED Next
  /\ (pc = "done" /\ stderr # <<>>) =>
       /\ output_file # None
       /\ Len(Written) = Len(config.stage_names)
       /\ \A k \in DOMAIN Written :
            LET steps == StepsOf(config.stage_names[k]) IN
              /\ Written[k].name = config.stage_names[k]
              /\ Len(Written[k].blocks) = Len(steps)
              /\ \A i \in DOMAIN steps :
                   Written[k].blocks[i] =
                     RenderStep(EntryFor(steps[i]), stages_data[k])

\* The three warnings were printed and the Dockerfile was written.
C9_Witness ==
  /\ pc = "done"
  /\ output_file # None
  /\ \E a, b, c \in DOMAIN stage_order :
       /\ InList(Warning(stage_order[a], "user_no_effect"), stderr)
       /\ InList(Warning(stage_order[b], "no_create_user"), stderr)
       /\ InList(Warning(stage_order[c], "cached_assets_unused"), stderr)

FLAGS == {"--from=builder"}

PathArguments(step) == SelectSeq(Tail(step), LAMBDA w : w \notin FLAGS)

TooFewCopyArguments(step) ==
  /\ Keyword(step) \in {"copy", "copy_as_user", "copy_as_root"}
  /\ Len(PathArguments(step)) < 2

\* C10: a copy, copy_as_user or copy_as_root step with fewer than two path
\* arguments is fatal, and no COPY without source and destination is
\* written for it.
C10_CopyWithTooFewArgumentsIsFatal ==
  /\ (\E n \in DOMAIN config.stages :
        /\ config.stages[n].build_steps # None
        /\ \E i \in DOMAIN config.stages[n].build_steps[1] :
             TooFewCopyArguments(config.stages[n].build_steps[1][i]))
       => (output_file = None /\ pc # "done")
  /\ pc = "done" =>
       \A k \in DOMAIN stage_order :
         \A i \in DOMAIN StepsOf(stage_order[k]) :
           TooFewCopyArguments(StepsOf(stage_order[k])[i]) =>
             \A j \in DOMAIN Written[k].blocks[i] :
               Keyword(Written[k].blocks[i][j]) # "COPY"

(***************************************************************************)
(* Base image resolution.                                                  *)
(***************************************************************************)
\* The tokens met by following `from` links from a token, at most n links.
RECURSIVE Chain(_, _)
Chain(token, n) ==
  IF token \notin DOMAIN stages \/ n = 0 THEN <<token>>
  ELSE <<token>> \o Chain(stages[token].frm, n - 1)

\* Following the links from the argument as far as there are stages.
ChainOfArgument == Chain(frm_arg, Cardinality(DOMAIN stages))

ChainEnd == ChainOfArgument[Len(ChainOfArgument)]

\* The links never leave the stage map: they run into a cycle.
Cyclic == ChainEnd \in DOMAIN stages

\* A stage that is reached again from itself.
OnCycle(stage_name) ==
  /\ stage_name \in DOMAIN stages
  /\ InList(stage_name,
            Chain(stages[stage_name].frm, Cardinality(DOMAIN stages)))

LooksLikeImage(token) ==
  \E i \in DOMAIN Spelling[token] : Spelling[token][i] \in {":", "/"}

ResolveFinished == pc \in {"returned", "raised"}

\* C11: resolve_base_image returns the image reached by following the from
\* links to a value that is no stage name and contains ':' or '/'; it
\* returns nothing else, and a direct image reference comes back unchanged.
C11_ResolveReturnsReachedImage ==
  /\ pc = "returned" =>
       /\ ~Cyclic
       /\ LooksLikeImage(ChainEnd)
       /\ returned = Some(ChainEnd)
  /\ (ResolveFinished /\ ~Cyclic /\ LooksLikeImage(ChainEnd)) =>
       /\ pc = "returned"
       /\ returned = Some(ChainEnd)
  /\ (ResolveFinished /\ frm_arg \notin DOMAIN stages /\ LooksLikeImage(frm_arg)) =>
       returned = Some(frm_arg)

\* An image is returned through a chain of two links that ends at an image
\* reference without a tag.
C11_Witness ==
  /\ pc = "returned"
  /\ Len(ChainOfArgument) = 3
  /\ returned = Some("ghcr.io/org/image")

\* C12: a chain of from links that runs into a cycle, a stage that is its
\* own parent included, ends in the circular-reference error naming a stage
\* of the cycle, and no image is returned.
C12_CycleIsCircularReferenceError ==
  Cyclic =>
    /\ pc # "returned"
    /\ returned = None
    /\ pc = "raised" =>
         /\ raised = CIRCULAR
         /\ OnCycle(current)

\* The error is raised for a cycle of two stages entered from a third one
\* that is not part of it.
C12_Witness ==
  /\ pc = "raised"
  /\ raised = CIRCULAR
  /\ ~OnCycle(frm_arg)
  /\ stages[current].frm # current

\* C13: the unresolved-stage error is raised exactly when the chain ends,
\* without a cycle, at a token that is no stage key and contains neither
\* ':' nor '/'.
C13_UnresolvedStageErrorIff ==
  ResolveFinished =>
    ((pc = "raised" /\ raised = NOT_FOUND)
       <=> (~Cyclic /\ ~LooksLikeImage(ChainEnd)))

\* The error is raised at the end of a chain of links.
C13_Witness ==
  /\ pc = "raised"
  /\ raised = NOT_FOUND
  /\ frm_arg \in DOMAIN stages
  /\ current = "nonexistent"

(***************************************************************************)
(* Detection from the image name.                                          *)
(***************************************************************************)
\* The word occurs in the name when letter case is ignored.
Mentions(word, chars) ==
  \E i \in 1 .. Len(chars) :
    /\ i + Len(word) - 1 <= Len(chars)
    /\ \A j \in DOMAIN word :
         \/ chars[i + j - 1] = word[j]
         \/ /\ chars[i + j - 1] \in DOMAIN LowerCase
            /\ LowerCase[chars[i + j - 1]] = word[j]

MentionsDnfDistro(chars) ==
  \E d \in DOMAIN DNF_DISTROS : Mentions(DNF_DISTROS[d], chars)

\* C14: an image name that contains "alpine" gets apk, /bin/sh and the
\* BusyBox user creation dialect; any other name gets /bin/bash and the
\* useradd dialect, with dnf when it contains fedora, centos, rhel, rocky
\* or alma and apt otherwise; letter case is ignored and every name gets a
\* value.
C14_DetectionTable ==
  /\ detected.package_manager # NoStr =>
       detected.package_manager =
         IF Mentions(ALPINE, base_image) THEN "apk"
         ELSE IF MentionsDnfDistro(base_image) THEN "dnf"
         ELSE "apt"
  /\ detected.shell # NoStr =>
       detected.shell =
         IF Mentions(ALPINE, base_image) THEN "/bin/sh" ELSE "/bin/bash"
  /\ detected.user_creation_style # NoStr =>
       detected.user_creation_style =
         IF Mentions(ALPINE, base_image) THEN "alpine" ELSE "standard"
  /\ pc = "call" =>
       (ENABLED NextDetect \/
          /\ detected.package_manager \in {"apk", "dnf", "apt"}
          /\ detected.shell \in {"/bin/sh", "/bin/bash"}
          /\ detected.user_creation_style \in {"alpine", "standard"})

\* All three values are detected for a name that spells Alpine with a
\* capital letter and names a dnf distribution as well.
C14_Witness ==
  /\ base_image = <<"f","e","d","o","r","a","A","l","p","i","n","e">>
  /\ detected = [package_manager |-> "apk", shell |-> "/bin/sh",
                 user_creation_style |-> "alpine"]

(***************************************************************************)
(* The detected values of a stage.                                         *)
(***************************************************************************)
\* The image the from chain of a stage ends at.
ResolvedImage(stage_name) ==
  LET chain == Chain(stages[stage_name].frm, Cardinality(DOMAIN stages))
  IN chain[Len(chain)]

\* The stage is built from another stage and its chain ends at an image.
ChildOfImage(stage_name) ==
  /\ stages[stage_name].frm \in DOMAIN stages
  /\ ResolvedImage(stage_name) \notin DOMAIN stages

\* The entry of stages_data of a stage and what is written for it.
DataOf(k) == stages_data[k]
WrittenStage(k) == Written[k]

CreatesUserWith(k, word) ==
  \E b \in DOMAIN WrittenStage(k).blocks :
    \E j \in DOMAIN WrittenStage(k).blocks[b] :
      /\ WrittenStage(k).blocks[b][j][1] = "RUN"
      /\ InList(word, WrittenStage(k).blocks[b][j])

\* C15: a stage whose from names another stage, and that sets neither
\* package manager nor shell, gets the values detected from the image its
\* from chain resolves to; built on alpine:3.19 it creates its user with
\* adduser and never with useradd.
C15_ChildStageUsesResolvedImage ==
  pc = "done" =>
    \A k \in DOMAIN stages_data :
      LET stage_name == DataOf(k).name IN
        (/\ ChildOfImage(stage_name)
         /\ stages[stage_name].package_manager = NoStr
         /\ stages[stage_name].shell = None) =>
          /\ DataOf(k).package_manager =
               DetectPackageManager(Spelling[ResolvedImage(stage_name)])
          /\ DataOf(k).shell = DetectShell(Spelling[ResolvedImage(stage_name)])
          /\ DataOf(k).user_creation_style =
               DetectUserCreationStyle(Spelling[ResolvedImage(stage_name)])
          /\ ResolvedImage(stage_name) = "alpine:3.19" =>
               ~CreatesUserWith(k, "useradd")

\* The settings of the stage behind an entry of stages_data.
SettingsOf(k) == stages[DataOf(k).name]

\* The stage is built directly from an image.
BuiltFromImage(k) == SettingsOf(k).frm \notin DOMAIN stages

DetectionWhenUnset(k) ==
  /\ (SettingsOf(k).package_manager = NoStr /\ BuiltFromImage(k)) =>
       DataOf(k).package_manager =
         DetectPackageManager(Spelling[SettingsOf(k).frm])
  /\ (SettingsOf(k).shell = None /\ BuiltFromImage(k)) =>
       DataOf(k).shell = DetectShell(Spelling[SettingsOf(k).frm])
  /\ BuiltFromImage(k) =>
       DataOf(k).user_creation_style =
         DetectUserCreationStyle(Spelling[SettingsOf(k).frm])

\* C16 as stated: a package manager or shell set for a stage is the value
\* used for it whatever the image name says, and detection is used for a
\* value left unset (no setting exists for the user creation dialect).
C16_ExplicitSettingWins ==
  pc = "done" => \A k \in DOMAIN stages_data :
    /\ SettingsOf(k).package_manager # NoStr =>
         DataOf(k).package_manager = SettingsOf(k).package_manager
    /\ SettingsOf(k).shell # None =>
         DataOf(k).shell = SettingsOf(k).shell[1]
    /\ DetectionWhenUnset(k)

\* C16 amended: a package manager or a non-empty shell set for a stage is
\* the value used for it whatever the image name says; detection is used
\* for a value left unset and for a shell set to the empty string.
C16_NonEmptySettingWins ==
  pc = "done" => \A k \in DOMAIN stages_data :
    /\ SettingsOf(k).package_manager # NoStr =>
         DataOf(k).package_manager = SettingsOf(k).package_manager
    /\ (SettingsOf(k).shell # None /\ SettingsOf(k).shell # Some("")) =>
         DataOf(k).shell = SettingsOf(k).shell[1]
    /\ (SettingsOf(k).shell = Some("") /\ BuiltFromImage(k)) =>
         DataOf(k).shell = DetectShell(Spelling[SettingsOf(k).frm])
    /\ DetectionWhenUnset(k)

\* A stage built from alpine:3.19 that sets dnf and /bin/zsh has been
\* processed, and so has a stage that sets neither.
C16_Witness ==
  /\ pc = "done"
  /\ \E k \in DOMAIN stages_data :
       /\ SettingsOf(k).frm = "alpine:3.19"
       /\ SettingsOf(k).package_manager = "dnf"
       /\ SettingsOf(k).shell = Some("/bin/zsh")
       /\ DataOf(k).package_manager = "dnf"
       /\ DataOf(k).shell = "/bin/zsh"
       /\ DataOf(k).user_creation_style = "alpine"

(***************************************************************************)
(* The files of a generation run.                                          *)
(***************************************************************************)
\* What a file of the project directory holds.
Holds(artifact) == IF artifact = "Dockerfile" THEN output_file ELSE files[artifact]

C18_FailedRunWritesNothing ==
  pc = "failed" => \A a \in Artifacts : Holds(a) = previous[a]

\* C19: at every moment a file holds either its complete content from
\* before the run or the complete new content, never an empty or partial
\* one.
C19_FilesChangeAtomically ==
  /\ Holds("Dockerfile") \in {previous["Dockerfile"], Some(dockerfile_content)}
  /\ host_runtime # NoStr =>
       /\ Holds("Justfile") \in
            {previous["Justfile"], Some(JustfileContent(config, host_runtime))}
       /\ Holds("build.sh") \in
            {previous["build.sh"], Some(BuildScriptContent(config))}
       /\ Holds("run.sh") \in
            {previous["run.sh"], Some(RunScriptContent(config))}

(***************************************************************************)
(* The ids of the configured user.                                         *)
(***************************************************************************)
\* C20: every stage of the written Dockerfile declares USER_UID and
\* USER_GID as the values of the user configuration: the configured ones,
\* 0 included, and 1000 only for a value the configuration leaves out.
C20_ConfiguredIdsAreEmitted ==
  pc = "done" =>
    \A k \in DOMAIN Written :
      /\ WrittenStage(k).args.USER_UID = UserConfigOf(config).uid
      /\ WrittenStage(k).args.USER_GID = UserConfigOf(config).gid

(***************************************************************************)
(* Copies from another stage and shell commands.                           *)
(***************************************************************************)
\* The step without its keyword.
Arguments(step) == Tail(step)

\* C21: a copy, copy_as_user or copy_as_root step with a --from flag is
\* written as COPY [chown] --from=S src dst: the flag is kept, the chown
\* annotation comes before it, and whether there is one is decided as for
\* the same step without the flag.
C21_CopyFromKeepsFlagAfterChown ==
  pc = "done" =>
    \A k \in DOMAIN stage_order :
      \A i \in DOMAIN StepsOf(stage_order[k]) :
        LET step == StepsOf(stage_order[k])[i]
            chown == \/ Keyword(step) = "copy_as_user"
                     \/ /\ Keyword(step) = "copy"
                        /\ ContextAt(stage_order[k], i) = "USER"
        IN step \in {COPY_FROM_A_B, COPY_AS_USER_FROM_A_B,
                     COPY_AS_ROOT_FROM_A_B} =>
             Written[k].blocks[i] =
               << <<"COPY">> \o (IF chown THEN <<CHOWN>> ELSE <<>>)
                             \o Arguments(step) >>

\* The keywords of the steps that are not shell commands.
STEP_KEYWORDS ==
  {"install_system_packages", "install_pip_packages", "create_user",
   "switch_user", "switch_root", "become_user", "become_root",
   "copy_cached_assets", "copy", "copy_as_user", "copy_as_root"}

IsShellCommand(step) ==
  Keyword(step) \notin STEP_KEYWORDS \cup VERBATIM \cup {"RUN"}

\* The words of a step with && in place of each line break.
JoinedWithAnd(step) ==
  [i \in DOMAIN step |-> IF step[i] = NEWLINE THEN "&&" ELSE step[i]]

C23_CachedAssetsWarningAndPairs ==
  \A k \in DOMAIN stages_data :
    LET stage_name == stages_data[k].name
        declared == stages[stage_name].cached_assets
        pairs == stages_data[k].cached_assets
    IN /\ InList(Warning(stage_name, "cached_assets_unused"), stderr)
            <=> /\ declared # <<>>
                /\ ~InList(COPY_CACHED_ASSETS, StepsOf(stage_name))
       /\ Len(pairs) = Len(declared)
       /\ \A i \in DOMAIN declared :
            /\ pairs[i].dest = declared[i].dest
            /\ pairs[i].source = AssetCachePath(declared[i].url)

\* A stage with two different assets and no copy_cached_assets has its two
\* pairs in order and was warned about.
C23_Witness ==
  \E k \in DOMAIN stages_data :
    LET stage_name == stages_data[k].name
        declared == stages[stage_name].cached_assets
    IN /\ Len(declared) = 2
       /\ declared[1] # declared[2]
       /\ stages_data[k].cached_assets[2].dest = declared[2].dest
       /\ ~InList(COPY_CACHED_ASSETS, StepsOf(stage_name))
       /\ InList(Warning(stage_name, "cached_assets_unused"), stderr)

\* C24: the warning that a stage's user field has no effect is printed iff
\* the stage has a user of its own and none of create_user, switch_user and
\* become_user is among its steps.
C24_UserNoEffectWarningIff ==
  \A k \in DOMAIN stages_data :
    LET stage_name == stages_data[k].name IN
      InList(Warning(stage_name, "user_no_effect"), stderr)
        <=> /\ stages[stage_name].user # NoStr
            /\ \A i \in DOMAIN StepsOf(stage_name) :
                 StepsOf(stage_name)[i] \notin UserKeywords

(***************************************************************************)
(* generators/standalone_commands.py  generate_standalone_command_scripts  *)
(* A file name is the pair of its stem and its suffix, so train.sh is      *)
(* <<"train", ".sh">>; the directory maps each name to the file there, if  *)
(* there is one.                                                           *)
(***************************************************************************)
NO_BASE_STAGE == "No base stage defined in configuration"

BUILD_SH == <<"build", ".sh">>
RUN_SH == <<"run", ".sh">>

CommandNames == {"train", "test"}

FileNames ==
  {BUILD_SH, RUN_SH, <<"install", ".sh">>, <<"notes", ".txt">>}
    \cup {<<name, ".sh">> : name \in CommandNames}

\* output_dir / f"{command_name}.sh"
ScriptPath(command_name) == <<command_name, ".sh">>

\* A file somebody else put into the directory.
ForeignFile == [content |-> <<"#!/bin/bash">>, mode |-> "0o644"]

\* template.render(...) of standalone_command.sh.j2, made executable.
StandaloneScript(command_name) ==
  [content |-> <<"#!/bin/bash", "standalone", command_name>>, mode |-> "0o755"]

\* The commands section: each command once, in the order of the file.
CommandLists ==
  {q \in SeqsUpTo([name : CommandNames, standalone : BOOLEAN],
                  Cardinality(CommandNames)) :
     \A i, j \in DOMAIN q : i # j => q[i].name # q[j].name}

StandaloneConfigs == [commands : CommandLists, has_base : BOOLEAN]

InitStandalone ==
  /\ config \in StandaloneConfigs
  /\ \E there \in SUBSET (FileNames \ {BUILD_SH, RUN_SH}) :
       output_dir = [f \in FileNames |->
                       IF f \in there \cup {BUILD_SH, RUN_SH}
                         THEN Some(ForeignFile) ELSE None]
  /\ existing_scripts = {}
  /\ generated_scripts = <<>>
  /\ commands_left = <<>>
  /\ pc = "call"
  /\ run = 1
  /\ returned = None
  /\ raised = NoStr
  /\ stages = <<>>
  /\ stage_order = <<>>
  /\ stages_data = <<>>
  /\ stderr = <<>>
  /\ dockerfile_content = <<>>
  /\ output_file = None
  /\ frm_arg = NoStr
  /\ current = NoStr
  /\ visited_set = {}
  /\ iterations = 0
  /\ base_image = <<>>
  /\ detected = None
  /\ files = NoFiles
  /\ previous = NothingBefore
  /\ host_runtime = "docker"
  /\ pending = <<>>

UnchangedByStandalone ==
  UNCHANGED <<stages, stage_order, stages_data, stderr, dockerfile_content,
              output_file, frm_arg, current, visited_set, iterations,
              detector_vars, files, previous, host_runtime, pending>>

\* script.unlink()
Unlink(dir, script) == [dir EXCEPT ![script] = None]

\* output_dir.glob("*.sh") without build.sh and run.sh, then the branch on
\* config.commands and the look-up of the base stage.
StandaloneCall ==
  /\ pc = "call"
  /\ existing_scripts' =
       {f \in FileNames : output_dir[f] # None /\ f[2] = ".sh"}
         \ {BUILD_SH, RUN_SH}
  /\ IF config.commands = <<>>
       THEN /\ pc' = "no_commands"
            /\ UNCHANGED <<raised, generated_scripts, commands_left>>
     ELSE IF ~config.has_base
       THEN /\ raised' = NO_BASE_STAGE
            /\ pc' = "raised"
            /\ UNCHANGED <<generated_scripts, commands_left>>
     ELSE /\ generated_scripts' = <<>>
          /\ commands_left' = config.commands
          /\ pc' = "commands"
          /\ UNCHANGED raised
  /\ UNCHANGED <<config, output_dir, returned, run>>
  /\ UnchangedByStandalone

\* for script in existing_scripts: script.unlink()
UnlinkExisting ==
  /\ pc = "no_commands"
  /\ \E script \in existing_scripts :
       /\ output_dir[script] # None
       /\ output_dir' = Unlink(output_dir, script)
  /\ UNCHANGED <<config, pc, raised, returned, run, existing_scripts,
                 generated_scripts, commands_left>>
  /\ UnchangedByStandalone

\* return []
ReturnNoScripts ==
  /\ pc = "no_commands"
  /\ \A script \in existing_scripts : output_dir[script] = None
  /\ returned' = Some(<<>>)
  /\ pc' = "returned"
  /\ UNCHANGED <<config, raised, run, standalone_vars>>
  /\ UnchangedByStandalone

\* One iteration of `for command_name, command_spec in config.commands.items()`.
CommandIterate ==
  /\ pc = "commands"
  /\ commands_left # <<>>
  /\ LET command_spec == Head(commands_left)
         script_path == ScriptPath(command_spec.name)
     IN IF command_spec.standalone
          THEN /\ output_dir' =
                    [output_dir EXCEPT
                       ![script_path] = Some(StandaloneScript(command_spec.name))]
               /\ generated_scripts' = Append(generated_scripts, script_path)
        ELSE IF script_path \in existing_scripts
          THEN /\ output_dir' = Unlink(output_dir, script_path)
               /\ UNCHANGED generated_scripts
        ELSE UNCHANGED <<output_dir, generated_scripts>>
  /\ commands_left' = Tail(commands_left)
  /\ UNCHANGED <<config, pc, raised, returned, run, existing_scripts>>
  /\ UnchangedByStandalone

\* existing_scripts - current_command_scripts
OrphanedScripts ==
  existing_scripts
    \ {ScriptPath(config.commands[i].name) : i \in DOMAIN config.commands}

\* for script in orphaned_scripts: script.unlink()
UnlinkOrphaned ==
  /\ pc = "commands"
  /\ commands_left = <<>>
  /\ \E script \in OrphanedScripts :
       /\ output_dir[script] # None
       /\ output_dir' = Unlink(output_dir, script)
  /\ UNCHANGED <<config, pc, raised, returned, run, existing_scripts,
                 generated_scripts, commands_left>>
  /\ UnchangedByStandalone

\* return generated_scripts
ReturnGenerated ==
  /\ pc = "commands"
  /\ commands_left = <<>>
  /\ \A script \in OrphanedScripts : output_dir[script] = None
  /\ returned' = Some(generated_scripts)
  /\ pc' = "returned"
  /\ UNCHANGED <<config, raised, run, standalone_vars>>
  /\ UnchangedByStandalone

\* The configuration is edited and the scripts are generated again.
CallAgain ==
  /\ pc = "returned"
  /\ run < MaxCalls
  /\ config' \in StandaloneConfigs
  /\ run' = run + 1
  /\ returned' = None
  /\ pc' = "call"
  /\ UNCHANGED <<raised, standalone_vars>>
  /\ UnchangedByStandalone

NextStandalone ==
  \/ StandaloneCall \/ UnlinkExisting \/ ReturnNoScripts \/ CommandIterate
  \/ UnlinkOrphaned \/ ReturnGenerated \/ CallAgain

SpecStandalone == InitStandalone /\ [][NextStandalone]_vars

(***************************************************************************)
(* core/config.py  ContainerMagicConfig: the validators run when a         *)
(* configuration is loaded.  A project name is the sequence of its         *)
(* characters.                                                             *)
(***************************************************************************)
PROJECT_NAME_ERROR ==
  "Project name must contain only alphanumeric characters, hyphens, and underscores"
USER_VARIANTS_ERROR ==
  "Can only specify one of: user, production_user, or development_user"
DEVELOPMENT_REQUIRED == "stages.development is required"
PRODUCTION_REQUIRED == "stages.production is required"

DIGITS == {"0", "1", "2", "3", "4", "5", "6", "7", "8", "9"}

\* str.isalnum()
IsAlnum(chars) ==
  /\ chars # <<>>
  /\ \A i \in DOMAIN chars :
       \/ chars[i] \in DOMAIN LowerCase
       \/ chars[i] \in {LowerCase[c] : c \in DOMAIN LowerCase}
       \/ chars[i] \in DIGITS

\* str.replace(old, "") for a single character.
Without(chars, old) == SelectSeq(chars, LAMBDA c : c # old)

ProjectNames ==
  {<<"t","e","s","t">>, <<"m","y","-","a","p","p","_","2">>,
   <<"m","y"," ","a","p","p">>, <<>>}

\* The three user fields of the project section.
UserVariants == {"user", "production_user", "development_user"}

UserSettings == {None, Some("appuser"), Some("root")}

InitValidate ==
  /\ \E name \in ProjectNames,
        users \in [UserVariants -> UserSettings],
        keys \in SUBSET StageNames :
       config = [project |-> [name |-> name,
                              user |-> users["user"],
                              production_user |-> users["production_user"],
                              development_user |-> users["development_user"]],
                 stages |-> keys]
  /\ pc = "validate_project_name"
  /\ raised = NoStr
  /\ stages = <<>>
  /\ stage_order = <<>>
  /\ stages_data = <<>>
  /\ stderr = <<>>
  /\ dockerfile_content = <<>>
  /\ output_file = None
  /\ frm_arg = NoStr
  /\ current = NoStr
  /\ visited_set = {}
  /\ iterations = 0
  /\ returned = None
  /\ base_image = <<>>
  /\ detected = None
  /\ SingleCall

UnchangedByValidators ==
  UNCHANGED <<config, stages, stage_order, stages_data, stderr,
              dockerfile_content, output_file, resolver_vars, detector_vars, standalone_vars,
              update_vars>>

ValidateProjectName ==
  /\ pc = "validate_project_name"
  /\ IF ~IsAlnum(Without(Without(config.project.name, "-"), "_"))
       THEN /\ raised' = PROJECT_NAME_ERROR
            /\ pc' = "rejected"
       ELSE /\ pc' = "validate_user_config"
            /\ UNCHANGED raised
  /\ UnchangedByValidators

\* sum(user_configs)
Specified(project) ==
  Cardinality({variant \in UserVariants : project[variant] # None})

\* The validator rejecting only a configuration with all three variants.
ValidateUserConfigAllThree ==
  /\ pc = "validate_user_config"
  /\ IF Specified(config.project) > 2
       THEN /\ raised' = USER_VARIANTS_ERROR
            /\ pc' = "rejected"
       ELSE /\ pc' = "validate_required_stages"
            /\ UNCHANGED raised
  /\ UnchangedByValidators

ValidateUserConfig ==
  /\ pc = "validate_user_config"
  /\ IF Specified(config.project) > 1
       THEN /\ raised' = USER_VARIANTS_ERROR
            /\ pc' = "rejected"
       ELSE /\ pc' = "validate_required_stages"
            /\ UNCHANGED raised
  /\ UnchangedByValidators

ValidateRequiredStages ==
  /\ pc = "validate_required_stages"
  /\ IF "development" \notin config.stages
       THEN /\ raised' = DEVELOPMENT_REQUIRED
            /\ pc' = "rejected"
     ELSE IF "production" \notin config.stages
       THEN /\ raised' = PRODUCTION_REQUIRED
            /\ pc' = "rejected"
     ELSE /\ pc' = "validated"
          /\ UNCHANGED raised
  /\ UnchangedByValidators

NextValidate ==
  ValidateProjectName \/ ValidateUserConfig \/ ValidateRequiredStages

SpecValidate == InitValidate /\ [][NextValidate]_vars

(***************************************************************************)
(* Validation of the configuration.                                        *)
(***************************************************************************)
\* The tokens met by following the from links of a configuration.
RECURSIVE FromChain(_, _, _)
FromChain(cfg, token, n) ==
  IF token \notin DOMAIN cfg.stages \/ n = 0 THEN <<token>>
  ELSE <<token>> \o FromChain(cfg, cfg.stages[token].frm, n - 1)

\* Some stage is reached again from itself.
HasFromCycle(cfg) ==
  \E n \in DOMAIN cfg.stages :
    InList(n, FromChain(cfg, cfg.stages[n].frm, Cardinality(DOMAIN cfg.stages)))

\* Some from is neither a stage name nor an image reference.
HasUnresolvedFrom(cfg) ==
  \E n \in DOMAIN cfg.stages :
    /\ cfg.stages[n].frm \notin DOMAIN cfg.stages
    /\ ~LooksLikeImage(cfg.stages[n].frm)

\* C25: a configuration with a from cycle, or with a from that is neither
\* a stage name nor an image reference, is rejected before any stage is
\* compiled: no stage is processed and no Dockerfile is written.
C25_BadFromRejectedBeforeCompilation ==
  (HasFromCycle(config) \/ HasUnresolvedFrom(config)) =>
    /\ stages_data = <<>>
    /\ output_file = None
    /\ pc # "done"

\* The user validator has run on the configuration.
UserConfigValidated ==
  \/ pc \in {"validate_required_stages", "validated"}
  \/ pc = "rejected" /\ raised # PROJECT_NAME_ERROR

\* C26: a configuration naming more than one of user, production_user and
\* development_user is rejected by the user validator, and one naming at
\* most one of them is not.
C26_MoreThanOneUserVariantRejected ==
  UserConfigValidated =>
    (raised = USER_VARIANTS_ERROR
       <=> Cardinality({variant \in UserVariants :
                          config.project[variant] # None}) > 1)

\* A configuration with production_user and development_user, and nothing
\* else wrong with it, was rejected by the user validator.
C26_Witness ==
  /\ raised = USER_VARIANTS_ERROR
  /\ config.project.user = None
  /\ config.project.production_user # None
  /\ config.project.development_user # None
  /\ config.project.name = <<"t","e","s","t">>
  /\ config.stages = StageNames

(***************************************************************************)
(* Standalone command scripts.                                             *)
(***************************************************************************)
\* The scripts of the commands with standalone = true, in their order.
RECURSIVE StandalonePaths(_)
StandalonePaths(commands) ==
  IF commands = <<>> THEN <<>>
  ELSE (IF Head(commands).standalone
          THEN <<ScriptPath(Head(commands).name)>> ELSE <<>>)
         \o StandalonePaths(Tail(commands))

\* C27: generate_standalone_command_scripts never deletes a .sh file that
\* is in the directory; it creates or overwrites only the scripts of the
\* commands with standalone = true, and it returns exactly their paths.
C27_ScriptsAreNeverDeleted ==
  [][/\ \A f \in FileNames :
          (f[2] = ".sh" /\ output_dir[f] # None) => output_dir'[f] # None
     /\ \A f \in FileNames :
          output_dir'[f] # output_dir[f] =>
            InList(f, StandalonePaths(config.commands))
     /\ (pc # "returned" /\ pc' = "returned") =>
          returned' = Some(StandalonePaths(config.commands))]_vars

(***************************************************************************)
(* Default steps and the search for create_user.                           *)
(***************************************************************************)
\* The steps a stage is to be compiled from.
ExpectedSteps(stage_name) ==
  LET stage == stages[stage_name] IN
    IF stage.build_steps # None THEN stage.build_steps[1]
    ELSE IF stage.frm \in DOMAIN stages THEN <<>>
    ELSE <<INSTALL_SYSTEM_PACKAGES, INSTALL_PIP_PACKAGES>>
           \o (IF stage.user = NoStr /\ config.production_user = NoStr
                 THEN <<>> ELSE <<CREATE_USER>>)

\* C28: a stage with no step list of its own is compiled from
\* install_system_packages, install_pip_packages and create_user when its
\* from is an image, without create_user when no user is configured, and
\* from no steps when its from is a stage; a step list of its own, the empty
\* one included, is compiled as it is.
C28_DefaultStepsOnlyWithoutExplicitList ==
  \A k \in DOMAIN stages_data :
    LET stage_name == stages_data[k].name
        expected == ExpectedSteps(stage_name)
    IN (stages[stage_name].frm \in DOMAIN stages
          \/ LooksLikeImage(stages[stage_name].frm)) =>
         stages_data[k].ordered_steps =
           [i \in DOMAIN expected |-> EntryFor(expected[i])]

\* create_user among the steps a stage is compiled from, its default steps
\* included, or among those of a stage on its from chain.
RECURSIVE EffectiveChainCreatesUser(_, _, _)
EffectiveChainCreatesUser(stage_name, visited, stages_dict) ==
  IF stage_name \notin DOMAIN stages_dict \/ stage_name \in visited THEN FALSE
  ELSE \/ InList(CREATE_USER, BuildSteps(stages_dict[stage_name]))
       \/ EffectiveChainCreatesUser(stages_dict[stage_name].frm,
                                    visited \cup {stage_name}, stages_dict)

\* C29: the search for create_user behind the switch_user warning reads the
\* steps each stage is compiled from, so a create_user that a stage of the
\* chain has by default counts: a stage with switch_user is warned about
\* iff no stage of its chain has create_user among those steps.
C29_DefaultCreateUserCounts ==
  \A k \in DOMAIN stages_data :
    LET stage_name == stages_data[k].name IN
      InList(SWITCH_USER, StepsOf(stage_name)) =>
        (InList(Warning(stage_name, "no_create_user"), stderr)
           <=> ~EffectiveChainCreatesUser(stage_name, {}, stages))

(***************************************************************************)
(* Termination of the traversals.                                          *)
(***************************************************************************)
TraversalFinished == pc \in {"returned", "raised", "walked"}

\* C30: resolve_base_image and the walk that looks for create_user come to
\* an end on every stage map, cycles and stages that are their own parent
\* included: each loop iteration but the last is at a stage not visited
\* before, so there are at most (number of stages + 1) iterations.
C30_TraversalsTerminate ==
  /\ [](/\ visited_set \subseteq DOMAIN stages
        /\ iterations \in {Cardinality(visited_set),
                            Cardinality(visited_set) + 1}
        /\ iterations <= Cardinality(DOMAIN stages) + 1)
  /\ <>TraversalFinished

\* A traversal went once around a cycle through every stage of the map
\* and stopped at the stage it had started from.
C30_Witness ==
  /\ TraversalFinished
  /\ Cardinality(DOMAIN stages) >= 3
  /\ visited_set = DOMAIN stages
  /\ iterations = Cardinality(DOMAIN stages) + 1
  /\ current = frm_arg

====
